---- MODULE Spec2Model ----
(***************************************************************************)
(* Local-first, versioned asset synchronisation of wchang15/menu:          *)
(* lib/storage.js (src/unnamed/part_000, lines 212-493) on top of          *)
(* lib/cloudAssets.js (src/unnamed/part_000, lines 654-1011).              *)
(*                                                                         *)
(* The program is one JavaScript thread running async functions: an        *)
(* operation is a chain of run-to-completion segments separated by its     *)
(* awaits, and segments of different operations interleave.  Each action   *)
(* below is one such segment.  A request to the local store (idb-keyval    *)
(* get/set/del) takes effect in the order the requests are issued, so it   *)
(* is part of the segment that issues it; a request to the remote store    *)
(* takes effect in the segment that receives its answer.                   *)
(***************************************************************************)
EXTENDS Integers, Sequences, FiniteSets, TLC

\* ---------------------------------------------------------------- bounds
MaxTime == 2        \* Date.now() ranges over 1..MaxTime
MaxObjs == 2        \* objects in a folder beyond which no other device adds one

Times == 1..MaxTime
\* The slots of the async operations in flight.
Tasks == {1, 2}

\* ------------------------------------------------------------- constants
INTRO_VIDEO == "introVideoBlob"
MENU_LAYOUT == "menuLayoutJson"
Keys == {INTRO_VIDEO, MENU_LAYOUT}
\* The asset key IntroPlayer uploads its video under and signs URLs for.
INTRO_ASSET_KEY == "intro-video"
\* The folders of the bucket.
AssetKeys == Keys \cup {INTRO_ASSET_KEY}
VERSION_SUFFIX == "__remoteVersion"
\* Variant: the legacy mirror left enabled.
LegacyMirrorEnabled == TRUE
ENABLE_LEGACY_MIRROR == FALSE
\* Variant: the legacy fallback left enabled.
LegacyFallbackEnabled == FALSE
DISABLE_LEGACY_FALLBACK == TRUE
ListLimit == 200

Owners == {"u1"}
\* The accounts that have used this browser: the owners that log in, and one
\* whose earlier sessions left entries in the local store.
Accounts == Owners \cup {"u2"}
NoUser == ""
None == <<>>

\* The callers use the Blob functions on blob keys and the Json functions on
\* layout keys.
IsJsonKey(k) == k = MENU_LAYOUT

\* ------------------------------------------------------------ data model
\* A cached JSON document is <<"doc", d>>; JSON.stringify of it is the text
\* <<"J", d>>; a blob is its bytes <<"B", b>>, text that is not JSON included.
Docs == {"d1", "d2"}
Blobs == {"b1", "b2"}
JsonStringify(v) == <<"J", v[2]>>
JsonParse(bytes) == IF bytes # None /\ bytes[1] = "J" THEN <<"doc", bytes[2]>> ELSE None

\* The bytes uploadAsset / uploadJsonAsset sends for a saved value.
UploadBytes(k, v) == IF IsJsonKey(k) THEN JsonStringify(v) ELSE v

\* What a caller hands to saveJson / saveBlob for key k.
SaveValues(k) == IF IsJsonKey(k) THEN {<<"doc", d>> : d \in Docs} ELSE {<<"B", b>> : b \in Blobs}
\* What another writer may put into the folder of key k.
ForeignBytes(k) == IF IsJsonKey(k) THEN {<<"J", "d1">>, <<"B", "b1">>} ELSE {<<"B", b>> : b \in Blobs}

\* File names: uploadJsonAsset names the file `${assetKey}.json`; uploadAsset
\* takes file.name, or `${assetKey}.bin` for a nameless Blob.
Fnames(k) == IF IsJsonKey(k) THEN {"k.json"} ELSE {"k.bin"}
\* inferredFilename of uploadAsset.
inferredFilename(k) == CHOOSE f \in Fnames(k) : TRUE
FnameRank(f) == CASE f = "k.bin" -> 1 [] OTHER -> 2

\* A remote object path `${userId}/${assetKey}/${ts}-${fname}` is
\* <<userId, assetKey, ts, fname>>; the legacy path `${userId}/${assetKey}` is
\* <<userId, assetKey>>.
AllFnames == UNION {Fnames(k) : k \in AssetKeys}
Paths == {p \in Owners \X AssetKeys \X Times \X AllFnames : p[4] \in Fnames(p[2])}
LegacyPath(uid, k) == <<uid, k>>

\* a.name < b.name on `${ts}-${fname}` with timestamps of equal width.
NameLess(p, q) == p[3] < q[3] \/ (p[3] = q[3] /\ FnameRank(p[4]) < FnameRank(q[4]))

\* ----------------------------------------------------------------- state
VARIABLES
  cache,      \* idb-keyval: store key -> value (None: absent)
  remote,     \* bucket 'assets': versioned path -> bytes (None: no object)
  legacy,     \* bucket 'assets': legacy path -> bytes (None: no object)
  user,       \* lib/session getCurrentUser()
  session,    \* supabase.auth session user id (NoUser: no session)
  listOk,     \* the bucket's policy allows listing
  now,        \* Date.now()
  task,       \* the async operations in flight
  inUse,      \* the logical keys the running page works with
  mirror,     \* the setting of ENABLE_LEGACY_MIRROR the build runs with
  ui,         \* the component's state: what it shows, the stream URL, `loading`
  observed,   \* ghost: paths a successful upload or a folder listing returned
  last,       \* ghost: the operation that returned last, if it ran alone
  excl        \* ghost: the task that has run alone since it started, or 0

vars == <<cache, remote, legacy, user, session, listOk, now, task, inUse, mirror, ui, observed, last, excl>>

\* ------------------------------------------------------- lib/storage.js
StoreKeys == (Accounts \cup {NoUser}) \X Keys \X {"", VERSION_SUFFIX}

\* withUserScope(key): `${user}__${key}`, or key itself without a user.
withUserScope(u, k, suffix) == <<u, k, suffix>>
valueKey(u, k) == withUserScope(u, k, "")
\* Variant: one marker entry shared by all keys of an owner.
versionKeyShared(u, k) == withUserScope(u, INTRO_VIDEO, VERSION_SUFFIX)

\* versionKey(key) then withUserScope.
versionKey(u, k) == withUserScope(u, k, VERSION_SUFFIX)

\* looksLikeFilePath(p): a string that includes `/${key}/`, does not end
\* with `/${key}` and whose last segment includes '-'.
looksLikeFilePath(p, k) == Len(p) = 4 /\ p[2] = k

\* ---------------------------------------------------- lib/cloudAssets.js
\* getUserId(): data?.session?.user?.id || null.
getUserId == session

Folder(uid, k) == {p \in DOMAIN remote : p[1] = uid /\ p[2] = k /\ remote[p] # None}

\* storage.list(folder, { limit: 200 }): the first `limit` entries by name.
Listed(S) == {x \in S : Cardinality({y \in S : NameLess(y, x)}) < ListLimit}

\* [...list].sort((a, b) => (a.name < b.name ? 1 : -1))[0]
SortDescFirst(S) == CHOOSE x \in S : \A y \in S : y = x \/ NameLess(y, x)

\* `ok`: the service answered the request (of every remote call below).
listLatestVersionPath(uid, k, ok) ==
  IF ~(ok /\ listOk) THEN None
  ELSE LET list == Listed(Folder(uid, k))
       IN IF list = {} THEN None ELSE SortDescFirst(list)

\* getLatestAssetVersion(assetKey)?.version
getLatestAssetVersion(k, ok) ==
  IF getUserId = NoUser THEN None
  ELSE LET latestPath == listLatestVersionPath(getUserId, k, ok)
       IN IF latestPath # None THEN latestPath
          ELSE IF ~DISABLE_LEGACY_FALLBACK THEN LegacyPath(getUserId, k)
          ELSE None

\* storage.download(path): { data, error }; null stands for an error.
StorageDownload(p, ok) ==
  IF ~ok THEN None
  ELSE IF Len(p) = 4 THEN remote[p]
  ELSE IF Len(p) = 2 THEN legacy[p]
  ELSE None

\* downloadAssetBlobByPath(objectPath)
downloadAssetBlobByPath(p, ok) == IF p = None THEN None ELSE StorageDownload(p, ok)

\* The legacy branch of downloadAssetBlob (2-2).
downloadLegacyFallback(uid, k, ok) ==
  IF ~DISABLE_LEGACY_FALLBACK THEN StorageDownload(LegacyPath(uid, k), ok) ELSE None

\* upsertLegacyAsset: the legacy object after the call; `ok`: the upsert was
\* carried out (its failure is swallowed by `.catch(() => {})`).
upsertLegacyAsset(uid, k, bytes, ok) ==
  IF ~mirror \/ uid = NoUser \/ bytes = None \/ ~ok THEN legacy
  ELSE [legacy EXCEPT ![LegacyPath(uid, k)] = bytes]

\* Ghost: what became of the legacy upsert of `bytes`.
Mirrored(uid, bytes, ok) ==
  IF ~mirror \/ uid = NoUser \/ bytes = None THEN "off" ELSE IF ok THEN "done" ELSE "failed"

\* ------------------------------------------------------------ the tasks
IdleTask ==
  [op |-> "idle", pc |-> "idle", key |-> "", usr |-> NoUser,
   val |-> None, lv |-> None, rp |-> None, dlp |-> None, path |-> None,
   upd |-> FALSE,
   \* ghost: the path whose bytes the pass fetched, whether the listed object
   \* was gone when the pass read, whether the operation wrote to the local
   \* store, how often onRemoteDiff ran, whether a remote call got no answer,
   \* whether the fetched bytes were not JSON, and the cached value and the
   \* marker (for a load: the global value) when the operation started (for a
   \* save, v0 is the cached value when it returned), and whether a save of
   \* the pass's key had already returned when the pass started
   src |-> None, gone |-> FALSE, wrote |-> FALSE, notif |-> 0, err |-> FALSE,
   bad |-> FALSE, v0 |-> None, m0 |-> None, late |-> FALSE,
   \* ghost: the remote storage calls the operation has issued (folder
   \* listings, content reads, uploads, removals, URL signings), and whether
   \* it ended by throwing to its caller
   nlist |-> 0, nread |-> 0, nup |-> 0, nrm |-> 0, nsign |-> 0, threw |-> FALSE,
   \* ghost: the legacy upsert of the operation: "off" (none sent), "done",
   \* or "failed"
   mirr |-> "off",
   \* ghost: whether the local store rejected a write of the operation
   lerr |-> FALSE,
   \* the component effect whose flow awaits the operation ("none": a direct
   \* call), the `cancelled` flag of that run of the effect, and hasLocal of
   \* the IntroPlayer flow
   flow |-> "none", cancelled |-> FALSE, had |-> FALSE,
   \* removeKey / resetAll: the paths collected for bucket.remove and the
   \* keys whose folders are still to be listed
   paths |-> {}, left |-> <<>>]

NoLast == [op |-> "none", key |-> "", val |-> None, upd |-> FALSE,
           path |-> None, cval |-> None, err |-> FALSE, wrote |-> FALSE]

Summary(t) ==
  [op |-> task[t].op, key |-> task[t].key, val |-> task[t].val,
   upd |-> task[t].upd, path |-> task[t].path,
   cval |-> IF task[t].key \in Keys THEN cache[valueKey(user, task[t].key)] ELSE None,
   err |-> task[t].err,
   wrote |-> task[t].wrote]

OthersIdle(t) == \A u \in Tasks \ {t} : task[u].op = "idle"

\* Ghost bookkeeping of an operation's first segment, a later segment, its
\* return, and of a step of the environment.
GhostStart(t) ==
  /\ excl' = IF OthersIdle(t) THEN t ELSE 0
  /\ last' = IF OthersIdle(t) THEN last ELSE NoLast
GhostStep(t) ==
  /\ excl' = IF excl = t THEN t ELSE 0
  /\ last' = IF excl = t THEN last ELSE NoLast
GhostReturn(t) ==
  /\ excl' = 0
  /\ last' = IF excl = t THEN Summary(t) ELSE NoLast
GhostEnv ==
  /\ excl' = 0
  /\ last' = NoLast

\* useState of the components: MenuEditor shows DEFAULT_LAYOUT with loading
\* false, IntroPlayer shows no video with loading true.
DEFAULT_LAYOUT == <<"doc", "default">>
InitUi == [shown |-> IF inUse = {MENU_LAYOUT} THEN DEFAULT_LAYOUT ELSE None,
           url |-> None,
           loading |-> (inUse = {INTRO_VIDEO})]

\* The state after the page opened: nothing cached for the owner; `g` is
\* what an earlier, unscoped version of the app left under the global key.
InitState(sess, g) ==
  /\ ui = InitUi
  /\ cache = [sk \in StoreKeys |->
               IF sk[1] = NoUser /\ sk[2] \in inUse /\ sk[3] = "" THEN g ELSE None]
  /\ remote = [p \in Paths |-> None]
  /\ legacy = [p \in Owners \X AssetKeys |-> None]
  /\ session = sess
  /\ user = sess
  /\ listOk \in BOOLEAN
  /\ now = 1
  /\ task = [t \in Tasks |-> IdleTask]
  /\ observed = {}
  /\ last = NoLast
  /\ excl = 0

\* The state after the page of the build opened.
InitWith(sess, g) == mirror = ENABLE_LEGACY_MIRROR /\ InitState(sess, g)

\* ============================================================ operations
SetTask(t, r) == task' = [task EXCEPT ![t] = r]

\* `return { updated: false }` and `return { updated: true, data }`.
Finished(r, updated, data) == [r EXCEPT !.pc = "done", !.upd = updated, !.val = data]

\* ---------------------------------- syncBlobFromCloud / syncJsonFromCloud
\* The call: supabase.auth.getSession() is awaited.
SyncStart(t, k) ==
  /\ task[t].op = "idle"
  /\ k \in inUse
  /\ SetTask(t, [IdleTask EXCEPT !.op = "sync", !.pc = "session", !.key = k,
                                 !.v0 = cache[valueKey(user, k)],
                                 !.m0 = cache[versionKey(user, k)],
                                 !.late = \E u \in Tasks \ {t} :
                                            /\ task[u].op = "save" /\ task[u].pc = "done"
                                            /\ task[u].key = k])
  /\ GhostStart(t)
  /\ UNCHANGED <<cache, remote, legacy, user, session, listOk, now, inUse, mirror, ui, observed>>

\* Variant: a pass that does not look at the session.
SyncAfterSessionUnchecked(t) ==
  /\ task[t].op = "sync" /\ task[t].pc = "session"
  /\ SetTask(t, [task[t] EXCEPT !.pc = "list",
                                 !.lv = cache[versionKey(user, task[t].key)]])
  /\ GhostStep(t)
  /\ UNCHANGED <<cache, remote, legacy, user, session, listOk, now, inUse, mirror, ui, observed>>

\* if (!sessionData?.session) return { updated: false };
\* localVersion = await getStoredVersion(key)
SyncAfterSession(t) ==
  /\ task[t].op = "sync" /\ task[t].pc = "session"
  /\ IF session = NoUser
       THEN SetTask(t, Finished(task[t], FALSE, None))
       ELSE SetTask(t, [task[t] EXCEPT !.pc = "list",
                                       !.lv = cache[versionKey(user, task[t].key)]])
  /\ GhostStep(t)
  /\ UNCHANGED <<cache, remote, legacy, user, session, listOk, now, inUse, mirror, ui, observed>>

\* The pass after `remotePath` is known: the equality test, onRemoteDiff, and
\* the choice of the download.
\* Ghost: the answer, or none, of a remote call.
Answered(r, ok) == [r EXCEPT !.err = r.err \/ ~ok]
\* Ghost: the answer of a folder listing; of a content read.
Listing(r, ok) == [Answered(r, ok) EXCEPT !.nlist = r.nlist + 1]
Reading(r, ok) == [Answered(r, ok) EXCEPT !.nread = r.nread + 1]

\* Variant: a pass without the equality test.
AfterListNoShortcut(r, remotePath) ==
  [r EXCEPT !.rp = remotePath, !.notif = r.notif + 1,
            !.pc = IF looksLikeFilePath(r.lv, r.key) THEN "dlpath" ELSE "dllist"]

\* Variant: a pass that starts its download without calling onRemoteDiff.
AfterListSilent(r, remotePath) ==
  IF remotePath # None /\ r.lv # None /\ r.lv = remotePath
    THEN Finished([r EXCEPT !.rp = remotePath], FALSE, None)
    ELSE [r EXCEPT !.rp = remotePath,
                   !.pc = IF looksLikeFilePath(r.lv, r.key) THEN "dlpath" ELSE "dllist"]

AfterList(r, remotePath) ==
  IF remotePath # None /\ r.lv # None /\ r.lv = remotePath
    THEN Finished([r EXCEPT !.rp = remotePath], FALSE, None)
    ELSE [r EXCEPT !.rp = remotePath, !.notif = r.notif + 1,
                   !.pc = IF looksLikeFilePath(r.lv, r.key) THEN "dlpath" ELSE "dllist"]

\* The onRemoteDiff the components pass: if (!cancelled) setLoading(true).
onRemoteDiff(r) ==
  IF r.flow # "none" /\ ~r.cancelled THEN [ui EXCEPT !.loading = TRUE] ELSE ui

\* remoteVersion = await getLatestAssetVersion(key)
SyncList(t) ==
  /\ task[t].op = "sync" /\ task[t].pc = "list"
  /\ \E ok \in BOOLEAN :
     LET remotePath == getLatestAssetVersion(task[t].key, ok)
         r == IF getUserId = NoUser THEN task[t] ELSE Listing(task[t], ok)
     IN /\ SetTask(t, AfterList(r, remotePath))
        /\ observed' = IF Len(remotePath) = 4 THEN observed \cup {remotePath} ELSE observed
        /\ ui' = IF AfterList(r, remotePath).notif > r.notif
                   THEN onRemoteDiff(task[t]) ELSE ui
  /\ GhostStep(t)
  /\ UNCHANGED <<cache, remote, legacy, user, session, listOk, now, inUse, mirror>>

\* Variant: a pass that takes the downloaded text unparsed.
FetchedUnparsed(k, bytes) == bytes

\* The value the pass takes from the downloaded bytes: the Blob itself, or
\* JSON.parse of its text (null when it does not parse).
Fetched(k, bytes) == IF IsJsonKey(k) THEN JsonParse(bytes) ELSE bytes

\* The pass after its download returned `bytes` read from `from`:
\* if nothing came return { updated: false }, else set(scopedKey, value).
AfterDownload(r, bytes, from) ==
  LET value == Fetched(r.key, bytes)
      g == [r EXCEPT !.gone = (Len(r.rp) = 4 /\ remote[r.rp] = None),
                     !.bad = (bytes # None /\ IsJsonKey(r.key) /\ JsonParse(bytes) = None)]
  IN IF value = None THEN Finished(g, FALSE, None)
     ELSE IF g.rp # None
            THEN [g EXCEPT !.pc = "setver", !.val = value, !.src = from, !.wrote = TRUE]
            ELSE Finished([g EXCEPT !.src = from, !.wrote = TRUE], TRUE, value)

CacheAfterDownload(r, bytes) ==
  IF Fetched(r.key, bytes) = None THEN cache
  ELSE [cache EXCEPT ![valueKey(user, r.key)] = Fetched(r.key, bytes)]

\* blob = await downloadAssetBlobByPath(localVersion)
SyncDownloadByPath(t) ==
  /\ task[t].op = "sync" /\ task[t].pc = "dlpath"
  /\ \E ok \in BOOLEAN :
     LET bytes == downloadAssetBlobByPath(task[t].lv, ok)
     IN /\ SetTask(t, AfterDownload(Reading(task[t], ok), bytes, task[t].lv))
        /\ cache' = CacheAfterDownload(task[t], bytes)
  /\ GhostStep(t)
  /\ UNCHANGED <<remote, legacy, user, session, listOk, now, inUse, mirror, ui, observed>>

\* downloadAssetBlob(key), up to the answer of its own folder listing.
SyncDownloadList(t) ==
  /\ task[t].op = "sync" /\ task[t].pc = "dllist"
  /\ \E ok \in BOOLEAN :
     LET k == task[t].key
         latestPath == IF getUserId = NoUser THEN None ELSE listLatestVersionPath(getUserId, k, ok)
         bytes == IF getUserId = NoUser THEN None ELSE downloadLegacyFallback(getUserId, k, ok)
     IN IF latestPath # None
          THEN /\ SetTask(t, [Listing(task[t], ok) EXCEPT !.pc = "dlget", !.dlp = latestPath])
               /\ observed' = observed \cup {latestPath}
               /\ UNCHANGED cache
          ELSE /\ SetTask(t, AfterDownload(IF getUserId = NoUser THEN task[t] ELSE Listing(task[t], ok),
                                            bytes, LegacyPath(getUserId, k)))
               /\ cache' = CacheAfterDownload(task[t], bytes)
               /\ UNCHANGED observed
  /\ GhostStep(t)
  /\ UNCHANGED <<remote, legacy, user, session, listOk, now, inUse, mirror, ui>>

\* downloadAssetBlob(key), the answer of storage.download(latestPath).
SyncDownloadGet(t) ==
  /\ task[t].op = "sync" /\ task[t].pc = "dlget"
  /\ \E ok \in BOOLEAN, mok \in BOOLEAN :
     LET k == task[t].key
         data == StorageDownload(task[t].dlp, ok)
         bytes == IF data # None THEN data ELSE downloadLegacyFallback(task[t].dlp[1], k, ok)
         from == IF data # None THEN task[t].dlp ELSE LegacyPath(task[t].dlp[1], k)
         r == [Reading(task[t], ok) EXCEPT !.mirr = Mirrored(task[t].dlp[1], data, mok)]
     IN /\ SetTask(t, AfterDownload(r, bytes, from))
        /\ cache' = CacheAfterDownload(task[t], bytes)
        /\ legacy' = upsertLegacyAsset(task[t].dlp[1], k, data, mok)
  /\ GhostStep(t)
  /\ UNCHANGED <<remote, user, session, listOk, now, inUse, mirror, ui, observed>>

\* setStoredVersion(key, version): the local store after it.
setStoredVersion(k, version) ==
  IF version = None THEN cache ELSE [cache EXCEPT ![versionKey(user, k)] = version]

\* if (remotePath) await setStoredVersion(key, remotePath);
\* return { updated: true, data }
SyncSetVersion(t) ==
  /\ task[t].op = "sync" /\ task[t].pc = "setver"
  /\ cache' = setStoredVersion(task[t].key, task[t].rp)
  /\ SetTask(t, Finished(task[t], TRUE, task[t].val))
  /\ GhostStep(t)
  /\ UNCHANGED <<remote, legacy, user, session, listOk, now, inUse, mirror, ui, observed>>

\* The local store rejects the set of setStoredVersion (the value is already
\* stored): the rejection is caught, return { updated: false }.
SyncSetVersionFails(t) ==
  /\ task[t].op = "sync" /\ task[t].pc = "setver"
  /\ SetTask(t, [Finished(task[t], FALSE, None) EXCEPT !.lerr = TRUE])
  /\ GhostStep(t)
  /\ UNCHANGED <<cache, remote, legacy, user, session, listOk, now, inUse, mirror, ui, observed>>

\* The caller receives the result.
SyncReturn(t) ==
  /\ task[t].op = "sync" /\ task[t].pc = "done" /\ task[t].flow = "none"
  /\ SetTask(t, IdleTask)
  /\ GhostReturn(t)
  /\ UNCHANGED <<cache, remote, legacy, user, session, listOk, now, inUse, mirror, ui, observed>>

\* ------------------------------------------------------ saveBlob / saveJson
\* Variant: a save that skips its local write.
SaveLocalSkipped(k, v) == cache

\* Step 1 of a save: the local store after `await set(scopedKey, value)`.
SaveLocal(k, v) == [cache EXCEPT ![valueKey(user, k)] = v]

\* The call: the value goes to the local store, getSession() is awaited.
SaveStart(t, k, v) ==
  /\ task[t].op = "idle"
  /\ k \in inUse /\ v \in SaveValues(k)
  /\ cache' = SaveLocal(k, v)
  /\ SetTask(t, [IdleTask EXCEPT !.op = "save", !.pc = "session", !.key = k,
                                 !.val = v, !.wrote = TRUE,
                                 !.m0 = cache[versionKey(user, k)]])
  /\ GhostStart(t)
  /\ UNCHANGED <<remote, legacy, user, session, listOk, now, inUse, mirror, ui, observed>>

\* The call when the local store rejects `await set(scopedKey, value)`: the
\* rejection leaves the function, which is outside its try block.
SaveLocalFails(t, k, v) ==
  /\ task[t].op = "idle"
  /\ k \in inUse /\ v \in SaveValues(k)
  /\ SetTask(t, [IdleTask EXCEPT !.op = "save", !.pc = "done", !.key = k, !.val = v,
                                 !.threw = TRUE,
                                 !.v0 = cache[valueKey(user, k)],
                                 !.m0 = cache[versionKey(user, k)]])
  /\ GhostStart(t)
  /\ UNCHANGED <<cache, remote, legacy, user, session, listOk, now, inUse, mirror, ui, observed>>

\* if (!session) return;  else uploadAsset: getUserId(), then
\* objectPath = `${userId}/${assetKey}/${Date.now()}-${inferredFilename}`
\* and the upload is sent.
SaveAfterSession(t) ==
  /\ task[t].op = "save" /\ task[t].pc = "session"
  /\ IF session = NoUser
       THEN SetTask(t, [task[t] EXCEPT !.pc = "done", !.v0 = cache[valueKey(user, task[t].key)]])
       ELSE SetTask(t, [task[t] EXCEPT !.pc = "upload",
                                       !.dlp = <<getUserId, task[t].key, now, inferredFilename(task[t].key)>>])
  /\ GhostStep(t)
  /\ UNCHANGED <<cache, remote, legacy, user, session, listOk, now, inUse, mirror, ui, observed>>

\* Variant: a save that lets the error of a failed upload reach its caller.
SaveUploadUncaught(t) ==
  /\ task[t].op = "save" /\ task[t].pc = "upload"
  /\ \E ok \in BOOLEAN :
     IF ok /\ remote[task[t].dlp] = None
       THEN /\ remote' = [remote EXCEPT ![task[t].dlp] = UploadBytes(task[t].key, task[t].val)]
            /\ SetTask(t, [task[t] EXCEPT !.pc = "uploaded", !.nup = task[t].nup + 1])
       ELSE /\ UNCHANGED remote
            /\ SetTask(t, [Answered(task[t], ok) EXCEPT !.pc = "done", !.nup = task[t].nup + 1,
                                                          !.threw = TRUE,
                                                          !.v0 = cache[valueKey(user, task[t].key)]])
  /\ GhostStep(t)
  /\ UNCHANGED <<cache, legacy, user, session, listOk, now, inUse, mirror, ui, observed>>

\* Variant: a save that goes on to record the path after a failed upload.
SaveUploadUnchecked(t) ==
  /\ task[t].op = "save" /\ task[t].pc = "upload"
  /\ \E ok \in BOOLEAN :
     /\ remote' = IF ok /\ remote[task[t].dlp] = None
                   THEN [remote EXCEPT ![task[t].dlp] = UploadBytes(task[t].key, task[t].val)]
                   ELSE remote
     /\ SetTask(t, [Answered(task[t], ok) EXCEPT !.pc = "uploaded", !.nup = task[t].nup + 1])
  /\ GhostStep(t)
  /\ UNCHANGED <<cache, legacy, user, session, listOk, now, inUse, mirror, ui, observed>>

\* Variant: an upload with `upsert: true`, which replaces an existing object.
SaveUploadUpsert(t) ==
  /\ task[t].op = "save" /\ task[t].pc = "upload"
  /\ \E ok \in BOOLEAN :
     IF ok
       THEN /\ remote' = [remote EXCEPT ![task[t].dlp] = UploadBytes(task[t].key, task[t].val)]
            /\ SetTask(t, [task[t] EXCEPT !.pc = "uploaded", !.nup = task[t].nup + 1])
       ELSE /\ UNCHANGED remote
            /\ SetTask(t, [Answered(task[t], ok) EXCEPT !.pc = "done", !.nup = task[t].nup + 1,
                                                          !.v0 = cache[valueKey(user, task[t].key)]])
  /\ GhostStep(t)
  /\ UNCHANGED <<cache, legacy, user, session, listOk, now, inUse, mirror, ui, observed>>

\* storage.upload(objectPath, file, { upsert: false }): the service stores a
\* new object, or answers with an error (no answer, or the object exists),
\* which uploadAsset throws and the save catches.
SaveUpload(t) ==
  /\ task[t].op = "save" /\ task[t].pc = "upload"
  /\ \E ok \in BOOLEAN :
     IF ok /\ remote[task[t].dlp] = None
       THEN /\ remote' = [remote EXCEPT ![task[t].dlp] = UploadBytes(task[t].key, task[t].val)]
            /\ SetTask(t, [task[t] EXCEPT !.pc = "uploaded", !.nup = task[t].nup + 1])
       ELSE /\ UNCHANGED remote
            /\ SetTask(t, [Answered(task[t], ok) EXCEPT !.pc = "done", !.nup = task[t].nup + 1,
                                                          !.v0 = cache[valueKey(user, task[t].key)]])
  /\ GhostStep(t)
  /\ UNCHANGED <<cache, legacy, user, session, listOk, now, inUse, mirror, ui, observed>>

\* Variant: a save that gives up when the legacy upsert fails.
SaveUploadedMirrorChecked(t) ==
  /\ task[t].op = "save" /\ task[t].pc = "uploaded"
  /\ \E mok \in BOOLEAN :
     LET file == UploadBytes(task[t].key, task[t].val)
         m == Mirrored(task[t].dlp[1], file, mok)
     IN /\ legacy' = upsertLegacyAsset(task[t].dlp[1], task[t].key, file, mok)
        /\ SetTask(t, [task[t] EXCEPT !.pc = "done",
                                       !.path = IF m = "failed" THEN None ELSE task[t].dlp,
                                       !.mirr = m,
                                       !.v0 = cache[valueKey(user, task[t].key)]])
        /\ cache' = IF m = "failed" THEN cache ELSE setStoredVersion(task[t].key, task[t].dlp)
  /\ observed' = observed \cup {task[t].dlp}
  /\ GhostStep(t)
  /\ UNCHANGED <<remote, user, session, listOk, now, inUse, mirror, ui>>

\* The upload returned: upsertLegacyAsset, return objectPath, and
\* await setStoredVersion(key, remotePath).
SaveUploaded(t) ==
  /\ task[t].op = "save" /\ task[t].pc = "uploaded"
  /\ \E mok \in BOOLEAN :
     LET file == UploadBytes(task[t].key, task[t].val)
     IN /\ legacy' = upsertLegacyAsset(task[t].dlp[1], task[t].key, file, mok)
        /\ SetTask(t, [task[t] EXCEPT !.pc = "done", !.path = task[t].dlp,
                                       !.mirr = Mirrored(task[t].dlp[1], file, mok),
                                       !.v0 = cache[valueKey(user, task[t].key)]])
  /\ cache' = setStoredVersion(task[t].key, task[t].dlp)
  /\ observed' = observed \cup {task[t].dlp}
  /\ GhostStep(t)
  /\ UNCHANGED <<remote, user, session, listOk, now, inUse, mirror, ui>>

SaveReturn(t) ==
  /\ task[t].op = "save" /\ task[t].pc = "done"
  /\ SetTask(t, IdleTask)
  /\ GhostReturn(t)
  /\ UNCHANGED <<cache, remote, legacy, user, session, listOk, now, inUse, mirror, ui, observed>>

\* --------------------------- loadLocalBlob / loadLocalJson (loadLocalValue)
\* The call: withUserScope(key), data = await get(scopedKey).
LoadStart(t, k) ==
  /\ task[t].op = "idle"
  /\ k \in inUse
  /\ SetTask(t, [IdleTask EXCEPT !.op = "load", !.pc = "got", !.key = k, !.usr = user,
                                 !.val = cache[valueKey(user, k)],
                                 !.v0 = cache[valueKey(user, k)],
                                 !.m0 = cache[valueKey(NoUser, k)]])
  /\ GhostStart(t)
  /\ UNCHANGED <<cache, remote, legacy, user, session, listOk, now, inUse, mirror, ui, observed>>

\* if (data != null) return data;
\* if (user && scopedKey !== key) fallback = await get(key); else return data.
LoadAfterGet(t) ==
  /\ task[t].op = "load" /\ task[t].pc = "got"
  /\ IF task[t].val # None \/ task[t].usr = NoUser
       THEN SetTask(t, [task[t] EXCEPT !.pc = "done"])
       ELSE SetTask(t, [task[t] EXCEPT !.pc = "gotfb", !.lv = cache[valueKey(NoUser, task[t].key)]])
  /\ GhostStep(t)
  /\ UNCHANGED <<cache, remote, legacy, user, session, listOk, now, inUse, mirror, ui, observed>>

\* if (fallback != null) await set(scopedKey, fallback); else return data.
LoadAfterFallback(t) ==
  /\ task[t].op = "load" /\ task[t].pc = "gotfb"
  /\ IF task[t].lv # None
       THEN /\ cache' = [cache EXCEPT ![valueKey(task[t].usr, task[t].key)] = task[t].lv]
            /\ SetTask(t, [task[t] EXCEPT !.pc = "del", !.wrote = TRUE])
       ELSE /\ UNCHANGED cache
            /\ SetTask(t, [task[t] EXCEPT !.pc = "done"])
  /\ GhostStep(t)
  /\ UNCHANGED <<remote, legacy, user, session, listOk, now, inUse, mirror, ui, observed>>

\* Variant: a migration that leaves the global key in place.
LoadDeleteSkipped(t) ==
  /\ task[t].op = "load" /\ task[t].pc = "del"
  /\ SetTask(t, [task[t] EXCEPT !.pc = "done", !.val = task[t].lv])
  /\ GhostStep(t)
  /\ UNCHANGED <<cache, remote, legacy, user, session, listOk, now, inUse, mirror, ui, observed>>

\* await del(key); return fallback.
LoadDelete(t) ==
  /\ task[t].op = "load" /\ task[t].pc = "del"
  /\ cache' = [cache EXCEPT ![valueKey(NoUser, task[t].key)] = None]
  /\ SetTask(t, [task[t] EXCEPT !.pc = "done", !.val = task[t].lv])
  /\ GhostStep(t)
  /\ UNCHANGED <<remote, legacy, user, session, listOk, now, inUse, mirror, ui, observed>>

LoadReturn(t) ==
  /\ task[t].op = "load" /\ task[t].pc = "done" /\ task[t].flow = "none"
  /\ SetTask(t, IdleTask)
  /\ GhostReturn(t)
  /\ UNCHANGED <<cache, remote, legacy, user, session, listOk, now, inUse, mirror, ui, observed>>

\* ---------------------------------------------------------------- removeKey
\* The call: withUserScope(key), await del(scopedKey).
RemoveStart(t, k) ==
  /\ task[t].op = "idle"
  /\ k \in inUse
  /\ cache' = [cache EXCEPT ![valueKey(user, k)] = None]
  /\ SetTask(t, [IdleTask EXCEPT !.op = "remove", !.pc = "delver", !.key = k, !.wrote = TRUE,
                                 !.v0 = cache[valueKey(user, k)],
                                 !.m0 = cache[versionKey(user, k)]])
  /\ GhostStart(t)
  /\ UNCHANGED <<remote, legacy, user, session, listOk, now, inUse, mirror, ui, observed>>

\* Variant: a removeKey that leaves the version marker in place.
RemoveVersionSkipped(t) ==
  /\ task[t].op = "remove" /\ task[t].pc = "delver"
  /\ SetTask(t, [task[t] EXCEPT !.pc = "session"])
  /\ GhostStep(t)
  /\ UNCHANGED <<cache, remote, legacy, user, session, listOk, now, inUse, mirror, ui, observed>>

\* await del(withUserScope(versionKey(key)).key); getSession() is awaited.
RemoveVersion(t) ==
  /\ task[t].op = "remove" /\ task[t].pc = "delver"
  /\ cache' = [cache EXCEPT ![versionKey(user, task[t].key)] = None]
  /\ SetTask(t, [task[t] EXCEPT !.pc = "session"])
  /\ GhostStep(t)
  /\ UNCHANGED <<remote, legacy, user, session, listOk, now, inUse, mirror, ui, observed>>

\* if (!sessionData?.session) return;  userData = await auth.getUser();
\* if (!userId) return;  then bucket.list(prefix, { limit: 200 }) is sent.
\* `ok`: the auth service answered getUser.
RemoveAfterSession(t) ==
  /\ task[t].op = "remove" /\ task[t].pc = "session"
  /\ \E ok \in BOOLEAN :
     IF session = NoUser
       THEN SetTask(t, [task[t] EXCEPT !.pc = "done"])
       ELSE IF ~ok
         THEN SetTask(t, [Answered(task[t], ok) EXCEPT !.pc = "done"])
         ELSE SetTask(t, [task[t] EXCEPT !.pc = "rmlist", !.usr = session])
  /\ GhostStep(t)
  /\ UNCHANGED <<cache, remote, legacy, user, session, listOk, now, inUse, mirror, ui, observed>>

\* The entries bucket.list(prefix, { limit: 200 }) answers with, as paths.
ListedPaths(uid, k, ok) == IF ok /\ listOk THEN Listed(Folder(uid, k)) ELSE {}

\* The list answered: paths = the listed files and the prefix itself;
\* bucket.remove(paths) is sent.
RemoveList(t) ==
  /\ task[t].op = "remove" /\ task[t].pc = "rmlist"
  /\ \E ok \in BOOLEAN :
     SetTask(t, [Listing(task[t], ok) EXCEPT
                   !.pc = "rm",
                   !.paths = ListedPaths(task[t].usr, task[t].key, ok)
                             \cup {LegacyPath(task[t].usr, task[t].key)}])
  /\ GhostStep(t)
  /\ UNCHANGED <<cache, remote, legacy, user, session, listOk, now, inUse, mirror, ui, observed>>

\* bucket.remove(paths): the bucket after the service carried it out.
BucketRemove(store, paths) == [p \in DOMAIN store |-> IF p \in paths THEN None ELSE store[p]]

\* bucket.remove(paths) answered, an error included; the call returns.
RemoveRemote(t) ==
  /\ task[t].op \in {"remove", "reset"} /\ task[t].pc = "rm"
  /\ \E ok \in BOOLEAN :
     /\ remote' = IF ok THEN BucketRemove(remote, task[t].paths) ELSE remote
     /\ legacy' = IF ok THEN BucketRemove(legacy, task[t].paths) ELSE legacy
     /\ SetTask(t, [Answered(task[t], ok) EXCEPT !.pc = "done", !.nrm = task[t].nrm + 1])
  /\ GhostStep(t)
  /\ UNCHANGED <<cache, user, session, listOk, now, inUse, mirror, ui, observed>>

RemoveReturn(t) ==
  /\ task[t].op \in {"remove", "reset"} /\ task[t].pc = "done"
  /\ SetTask(t, IdleTask)
  /\ GhostReturn(t)
  /\ UNCHANGED <<cache, remote, legacy, user, session, listOk, now, inUse, mirror, ui, observed>>

\* ----------------------------------------------------------------- resetAll
\* The keys whose folders resetAll empties, in its order.
ResetKeys == <<INTRO_VIDEO, MENU_LAYOUT>>

\* The call: await clear() empties the whole idb-keyval store.
ResetStart(t) ==
  /\ task[t].op = "idle"
  /\ cache' = [sk \in StoreKeys |-> None]
  /\ SetTask(t, [IdleTask EXCEPT !.op = "reset", !.pc = "session", !.wrote = TRUE])
  /\ GhostStart(t)
  /\ UNCHANGED <<remote, legacy, user, session, listOk, now, inUse, mirror, ui, observed>>

\* The session and user checks of resetAll; the first folder list is sent.
ResetAfterSession(t) ==
  /\ task[t].op = "reset" /\ task[t].pc = "session"
  /\ \E ok \in BOOLEAN :
     IF session = NoUser
       THEN SetTask(t, [task[t] EXCEPT !.pc = "done"])
       ELSE IF ~ok
         THEN SetTask(t, [Answered(task[t], ok) EXCEPT !.pc = "done"])
         ELSE SetTask(t, [task[t] EXCEPT !.pc = "rslist", !.usr = session, !.left = ResetKeys])
  /\ GhostStep(t)
  /\ UNCHANGED <<cache, remote, legacy, user, session, listOk, now, inUse, mirror, ui, observed>>

\* for (const k of keys): one folder list answered, its files and the prefix
\* pushed; after the last key bucket.remove(paths) is sent.
ResetList(t) ==
  /\ task[t].op = "reset" /\ task[t].pc = "rslist"
  /\ \E ok \in BOOLEAN :
     LET k == Head(task[t].left)
     IN SetTask(t, [Listing(task[t], ok) EXCEPT
                      !.pc = IF Len(task[t].left) = 1 THEN "rm" ELSE "rslist",
                      !.left = Tail(task[t].left),
                      !.paths = task[t].paths \cup ListedPaths(task[t].usr, k, ok)
                                \cup {LegacyPath(task[t].usr, k)}])
  /\ GhostStep(t)
  /\ UNCHANGED <<cache, remote, legacy, user, session, listOk, now, inUse, mirror, ui, observed>>

\* -------------------------------------------------------- getSignedAssetUrl
\* The call: getUserId() is awaited (USE_SERVER_SIGNING is false).
SignStart(t, k) ==
  /\ task[t].op = "idle"
  /\ k \in inUse
  /\ SetTask(t, [IdleTask EXCEPT !.op = "sign", !.pc = "user", !.key = k])
  /\ GhostStart(t)
  /\ UNCHANGED <<cache, remote, legacy, user, session, listOk, now, inUse, mirror, ui, observed>>

\* if (!userId) return null;  else listLatestVersionPath is awaited.
SignAfterUser(t) ==
  /\ task[t].op = "sign" /\ task[t].pc = "user"
  /\ IF getUserId = NoUser
       THEN SetTask(t, [task[t] EXCEPT !.pc = "done"])
       ELSE SetTask(t, [task[t] EXCEPT !.pc = "list", !.usr = getUserId])
  /\ GhostStep(t)
  /\ UNCHANGED <<cache, remote, legacy, user, session, listOk, now, inUse, mirror, ui, observed>>

\* The list answered: createSignedUrl of the latest path, else of the legacy
\* path if the fallback is enabled, is sent; else return null.
SignList(t) ==
  /\ task[t].op = "sign" /\ task[t].pc = "list"
  /\ \E ok \in BOOLEAN :
     LET latestPath == listLatestVersionPath(task[t].usr, task[t].key, ok)
         r == Listing(task[t], ok)
     IN IF latestPath # None
          THEN SetTask(t, [r EXCEPT !.pc = "sign", !.dlp = latestPath])
          ELSE IF ~DISABLE_LEGACY_FALLBACK
            THEN SetTask(t, [r EXCEPT !.pc = "sign", !.dlp = LegacyPath(task[t].usr, task[t].key)])
            ELSE SetTask(t, [r EXCEPT !.pc = "done"])
  /\ GhostStep(t)
  /\ UNCHANGED <<cache, remote, legacy, user, session, listOk, now, inUse, mirror, ui, observed>>

\* createSignedUrl(path) answered: the URL of an existing object, or an error
\* value; or the awaited call rejected (`thrown`), which nothing in
\* getSignedAssetUrl catches.
SignUrl(t) ==
  /\ task[t].op = "sign" /\ task[t].pc = "sign"
  /\ \E ok \in BOOLEAN, thrown \in BOOLEAN :
     LET r == [Answered(task[t], ok) EXCEPT !.nsign = task[t].nsign + 1]
     IN IF ~ok /\ thrown
          THEN SetTask(t, [r EXCEPT !.pc = "done", !.threw = TRUE])
          ELSE IF StorageDownload(task[t].dlp, ok) # None
            THEN SetTask(t, [r EXCEPT !.pc = "done", !.val = <<"url", task[t].dlp>>])
            ELSE IF Len(task[t].dlp) = 4 /\ ~DISABLE_LEGACY_FALLBACK
              THEN SetTask(t, [r EXCEPT !.dlp = LegacyPath(task[t].usr, task[t].key)])
              ELSE SetTask(t, [r EXCEPT !.pc = "done"])
  /\ GhostStep(t)
  /\ UNCHANGED <<cache, remote, legacy, user, session, listOk, now, inUse, mirror, ui, observed>>

SignReturn(t) ==
  /\ task[t].op = "sign" /\ task[t].pc = "done" /\ task[t].flow = "none"
  /\ SetTask(t, IdleTask)
  /\ GhostReturn(t)
  /\ UNCHANGED <<cache, remote, legacy, user, session, listOk, now, inUse, mirror, ui, observed>>

\* ------------------------- the load effects of MenuEditor and IntroPlayer
\* The effect whose flow handles key k.
FlowOf(k) == IF IsJsonKey(k) THEN "layout" ELSE "intro"

\* The effect runs (userReady, or a dependency changed and the cleanup of the
\* earlier run has set its flag): cancelled = false, and the flow awaits
\* loadLocalJson(menuLayoutKey(lang)) or loadLocalBlob(KEYS.INTRO_VIDEO).
FlowStart(t, k) ==
  /\ task[t].op = "idle"
  /\ inUse = {k} /\ user # NoUser
  /\ \A u \in Tasks : task[u].flow = "none" \/ task[u].cancelled
  /\ SetTask(t, [IdleTask EXCEPT !.op = "load", !.pc = "got", !.key = k, !.usr = user,
                                 !.val = cache[valueKey(user, k)],
                                 !.v0 = cache[valueKey(user, k)],
                                 !.m0 = cache[valueKey(NoUser, k)],
                                 !.flow = FlowOf(k)])
  /\ GhostStart(t)
  /\ UNCHANGED <<cache, remote, legacy, user, session, listOk, now, inUse, mirror, ui, observed>>

\* The cleanup of the effect: cancelled = true.
Cleanup(t) ==
  /\ task[t].flow # "none" /\ ~task[t].cancelled
  /\ SetTask(t, [task[t] EXCEPT !.cancelled = TRUE])
  /\ GhostEnv
  /\ UNCHANGED <<cache, remote, legacy, user, session, listOk, now, inUse, mirror, ui, observed>>

\* The component's state after the local load returned `data`:
\* MenuEditor: if (!cancelled) setLayout(saved || DEFAULT_LAYOUT);
\* IntroPlayer: if (!cancelled && localBlob) setVideoBlob(localBlob);
\* both: finally { if (!cancelled) setLoading(false) }.
UiAfterLoad(r, data) ==
  IF r.cancelled THEN ui
  ELSE [ui EXCEPT !.shown = IF data # None THEN data
                            ELSE IF r.flow = "layout" THEN DEFAULT_LAYOUT ELSE @,
                  !.loading = FALSE]

\* Variant: a flow that leaves the loading flag as it is after its pass.
UiAfterSyncNoLower(r, data) ==
  IF r.cancelled THEN ui
  ELSE [ui EXCEPT !.shown = IF data # None THEN data ELSE @,
                  !.url = IF r.flow = "intro" /\ data # None THEN None ELSE @]

\* The component's state after the pass returned `data` (syncResult?.data):
\* if (!cancelled && data) setLayout(data) / setVideoBlob(data), setVideoUrl(null);
\* if (!cancelled) setLoading(false).
UiAfterSync(r, data) ==
  IF r.cancelled THEN ui
  ELSE [ui EXCEPT !.shown = IF data # None THEN data ELSE @,
                  !.url = IF r.flow = "intro" /\ data # None THEN None ELSE @,
                  !.loading = FALSE]

\* The local load returned to the flow, which goes on to call
\* syncJsonFromCloud / syncBlobFromCloud.  (The store holds no layout under
\* the language-less key of earlier versions.)
FlowLoaded(t) ==
  /\ task[t].op = "load" /\ task[t].pc = "done" /\ task[t].flow # "none"
  /\ ui' = UiAfterLoad(task[t], task[t].val)
  /\ SetTask(t, [IdleTask EXCEPT !.op = "sync", !.pc = "session", !.key = task[t].key,
                                 !.v0 = cache[valueKey(user, task[t].key)],
                                 !.m0 = cache[versionKey(user, task[t].key)],
                                 !.late = \E u \in Tasks \ {t} :
                                            /\ task[u].op = "save" /\ task[u].pc = "done"
                                            /\ task[u].key = task[t].key,
                                 !.flow = task[t].flow, !.cancelled = task[t].cancelled,
                                 !.had = (task[t].val # None)])
  /\ GhostStep(t)
  /\ UNCHANGED <<cache, remote, legacy, user, session, listOk, now, inUse, mirror, observed>>

\* The pass returned to the flow.  MenuEditor's flow ends; IntroPlayer's
\* goes on to getSignedAssetUrl(INTRO_ASSET_KEY) when it has neither a local
\* nor a synced blob.
FlowSynced(t) ==
  /\ task[t].op = "sync" /\ task[t].pc = "done" /\ task[t].flow # "none"
  /\ LET data == IF task[t].upd THEN task[t].val ELSE None
     IN /\ ui' = UiAfterSync(task[t], data)
        /\ IF task[t].flow = "intro" /\ ~task[t].had /\ data = None
             THEN /\ SetTask(t, [IdleTask EXCEPT !.op = "sign", !.pc = "user", !.key = INTRO_ASSET_KEY,
                                                 !.flow = task[t].flow,
                                                 !.cancelled = task[t].cancelled])
                  /\ GhostStep(t)
             ELSE /\ SetTask(t, IdleTask)
                  /\ GhostReturn(t)
  /\ UNCHANGED <<cache, remote, legacy, user, session, listOk, now, inUse, mirror, observed>>

\* getSignedAssetUrl returned to IntroPlayer's flow (a throw is caught):
\* if (cancelled || !signedUrl) return;  setVideoUrl(cacheBust(signedUrl));
\* fetch(`${signedUrl}&dl=1`) is sent.
FlowSigned(t) ==
  /\ task[t].op = "sign" /\ task[t].pc = "done" /\ task[t].flow # "none"
  /\ LET signedUrl == IF task[t].threw THEN None ELSE task[t].val
     IN IF task[t].cancelled \/ signedUrl = None
          THEN /\ SetTask(t, IdleTask)
               /\ GhostReturn(t)
               /\ UNCHANGED ui
          ELSE /\ SetTask(t, [IdleTask EXCEPT !.op = "fetch", !.pc = "fetch", !.key = task[t].key,
                                              !.dlp = signedUrl[2],
                                              !.flow = task[t].flow,
                                              !.cancelled = task[t].cancelled])
               /\ GhostStep(t)
               /\ ui' = [ui EXCEPT !.url = signedUrl]
  /\ UNCHANGED <<cache, remote, legacy, user, session, listOk, now, inUse, mirror, observed>>

\* The fetch answered: (r.ok ? r.blob() : null), and with a blob
\* saveBlob(KEYS.INTRO_VIDEO, b), which nobody awaits.
FlowFetched(t) ==
  /\ task[t].op = "fetch" /\ task[t].pc = "fetch"
  /\ \E ok \in BOOLEAN :
     LET b == StorageDownload(task[t].dlp, ok)
     IN IF b = None
          THEN /\ SetTask(t, IdleTask)
               /\ GhostReturn(t)
               /\ UNCHANGED cache
          ELSE /\ cache' = SaveLocal(INTRO_VIDEO, b)
               /\ SetTask(t, [IdleTask EXCEPT !.op = "save", !.pc = "session", !.key = INTRO_VIDEO,
                                              !.val = b, !.wrote = TRUE,
                                              !.m0 = cache[versionKey(user, INTRO_VIDEO)]])
               /\ GhostStep(t)
  /\ UNCHANGED <<remote, legacy, user, session, listOk, now, inUse, mirror, ui, observed>>

\* ------------------------------------------------------- the environment
\* Another device of the same owner uploads a version, named by its own clock.
OtherWrite(p, b) ==
  /\ p[2] \in inUse /\ b \in ForeignBytes(p[2])
  /\ remote[p] = None
  /\ Cardinality(Folder(p[1], p[2])) < MaxObjs
  /\ remote' = [remote EXCEPT ![p] = b]
  /\ GhostEnv
  /\ UNCHANGED <<cache, legacy, user, session, listOk, now, task, inUse, mirror, ui, observed>>

\* An object is deleted from the bucket (another device, the dashboard).
OtherDelete(p) ==
  /\ remote[p] # None
  /\ remote' = [remote EXCEPT ![p] = None]
  /\ GhostEnv
  /\ UNCHANGED <<cache, legacy, user, session, listOk, now, task, inUse, mirror, ui, observed>>

\* A page mounts with a session: setCurrentUser(session.user.id).
Login(o) ==
  /\ session = NoUser
  /\ session' = o /\ user' = o
  /\ GhostEnv
  /\ UNCHANGED <<cache, remote, legacy, listOk, now, task, inUse, mirror, ui, observed>>

\* handleLogout: await supabase.auth.signOut() (also: the session expires).
SignOut ==
  /\ session # NoUser
  /\ session' = NoUser
  /\ GhostEnv
  /\ UNCHANGED <<cache, remote, legacy, user, listOk, now, task, inUse, mirror, ui, observed>>

\* handleLogout: clearCurrentUser().
ClearCurrentUser ==
  /\ session = NoUser /\ user # NoUser
  /\ user' = NoUser
  /\ GhostEnv
  /\ UNCHANGED <<cache, remote, legacy, session, listOk, now, task, inUse, mirror, ui, observed>>

Tick ==
  /\ now < MaxTime
  /\ now' = now + 1
  /\ UNCHANGED <<cache, remote, legacy, user, session, listOk, task, inUse, mirror, ui, observed, last, excl>>

\* ------------------------------------------------------- specifications
SyncWork(t) ==
  \/ SyncAfterSession(t)
  \/ SyncList(t)
  \/ SyncDownloadByPath(t)
  \/ SyncDownloadList(t)
  \/ SyncDownloadGet(t)
  \/ SyncSetVersion(t)

SyncSteps(t) ==
  \/ SyncWork(t)
  \/ SyncReturn(t)

SaveSteps(t) ==
  \/ SaveAfterSession(t)
  \/ SaveUpload(t)
  \/ SaveUploaded(t)
  \/ SaveReturn(t)

RemoveSteps(t) ==
  \/ RemoveVersion(t)
  \/ RemoveAfterSession(t)
  \/ RemoveList(t)
  \/ RemoveRemote(t)
  \/ RemoveReturn(t)

ResetSteps(t) ==
  \/ ResetAfterSession(t)
  \/ ResetList(t)

SignWork(t) ==
  \/ SignAfterUser(t)
  \/ SignList(t)
  \/ SignUrl(t)

SignSteps(t) ==
  \/ SignWork(t)
  \/ SignReturn(t)

LoadWork(t) ==
  \/ LoadAfterGet(t)
  \/ LoadAfterFallback(t)
  \/ LoadDelete(t)

LoadSteps(t) ==
  \/ LoadWork(t)
  \/ LoadReturn(t)

FlowSteps(t) ==
  \/ LoadWork(t)
  \/ FlowLoaded(t)
  \/ SyncWork(t)
  \/ FlowSynced(t)
  \/ SignWork(t)
  \/ FlowSigned(t)
  \/ FlowFetched(t)
  \/ SaveSteps(t)

\* Spec: a logged-in page that reconciles and saves, one operation at a
\* time, while other devices write to and delete from the owner's folders.
Init ==
  /\ inUse \in {{k} : k \in Keys}
  /\ \E o \in Owners : InitWith(o, None)

Next ==
  \/ \E k \in Keys : SyncStart(1, k)
  \/ SyncSteps(1)
  \/ \E k \in Keys, v \in UNION {SaveValues(kk) : kk \in Keys} : SaveStart(1, k, v)
  \/ SaveSteps(1)
  \/ \E p \in Paths, b \in UNION {ForeignBytes(kk) : kk \in Keys} : OtherWrite(p, b)
  \/ \E p \in Paths : OtherDelete(p)
  \/ Tick

Spec == Init /\ [][Next]_vars

\* SpecLocal: a page, logged in or not, that saves and loads one operation
\* at a time while sessions begin and end; the store may hold a value that
\* an unscoped version of the app left under the global key, and the local
\* store may reject a write.
InitLocal ==
  /\ inUse \in {{k} : k \in Keys}
  /\ \E sess \in Owners \cup {NoUser}, g \in UNION {SaveValues(k) : k \in inUse} \cup {None} :
       InitWith(sess, g)

NextLocal ==
  \/ \E k \in Keys, v \in UNION {SaveValues(kk) : kk \in Keys} : SaveStart(1, k, v)
  \/ \E k \in Keys, v \in UNION {SaveValues(kk) : kk \in Keys} : SaveLocalFails(1, k, v)
  \/ SaveSteps(1)
  \/ \E k \in Keys : LoadStart(1, k)
  \/ LoadSteps(1)
  \/ \E o \in Owners : Login(o)
  \/ SignOut
  \/ ClearCurrentUser
  \/ Tick

SpecLocal == InitLocal /\ [][NextLocal]_vars

\* SpecConc: a logged-in page whose editor saves while a reconciliation pass
\* of the layout load effect is in flight; the folders hold what this page
\* has uploaded.
NextConc ==
  \/ \E k \in Keys : SyncStart(1, k)
  \/ SyncSteps(1)
  \/ \E k \in Keys, v \in UNION {SaveValues(kk) : kk \in Keys} : SaveStart(2, k, v)
  \/ SaveSteps(2)
  \/ Tick

SpecConc == Init /\ [][NextConc]_vars

\* SpecOps: a page, logged in or not, that runs every operation of the
\* storage layer, one at a time, and whose session may end; the folders hold
\* what this page has uploaded, and the store may hold a value that an
\* unscoped version of the app left under the global key.
InitOps ==
  /\ inUse \in {{k} : k \in Keys}
  /\ \E sess \in Owners \cup {NoUser}, g \in UNION {SaveValues(k) : k \in inUse} \cup {None} :
       InitWith(sess, g)

NextOps ==
  \/ \E k \in Keys : SyncStart(1, k)
  \/ SyncSteps(1)
  \/ \E k \in Keys, v \in UNION {SaveValues(kk) : kk \in Keys} : SaveStart(1, k, v)
  \/ SaveSteps(1)
  \/ \E k \in Keys : LoadStart(1, k)
  \/ LoadSteps(1)
  \/ \E k \in Keys : RemoveStart(1, k)
  \/ RemoveSteps(1)
  \/ ResetStart(1)
  \/ ResetSteps(1)
  \/ \E k \in Keys : SignStart(1, k)
  \/ SignSteps(1)
  \/ SignOut
  \/ ClearCurrentUser
  \/ Tick

SpecOps == InitOps /\ [][NextOps]_vars

\* SpecRemount: a logged-in page whose layout load effect runs again (the
\* component remounts, or the language changes and changes back) while the
\* pass of its earlier run is still in flight: the cleanup of the earlier run
\* sets its `cancelled` flag and leaves its pass running.
NextRemount ==
  \/ \E k \in Keys : SyncStart(1, k)
  \/ SyncSteps(1)
  \/ \E k \in Keys : SyncStart(2, k)
  \/ SyncSteps(2)
  \/ \E p \in Paths, b \in UNION {ForeignBytes(kk) : kk \in Keys} : OtherWrite(p, b)

SpecRemount == Init /\ [][NextRemount]_vars

\* SpecKeys: a logged-in page that works with two keys at once, the video on
\* one and the layout on the other, each reconciled, saved and removed while
\* an operation on the other key is in flight.
InitKeys ==
  /\ inUse = Keys
  /\ \E o \in Owners : InitWith(o, None)

NextKeys ==
  \/ SyncStart(1, INTRO_VIDEO)
  \/ SyncSteps(1)
  \/ SaveStart(1, INTRO_VIDEO, <<"B", "b1">>)
  \/ SaveSteps(1)
  \/ RemoveStart(1, INTRO_VIDEO)
  \/ RemoveSteps(1)
  \/ SyncStart(2, MENU_LAYOUT)
  \/ SyncSteps(2)
  \/ SaveStart(2, MENU_LAYOUT, <<"doc", "d1">>)
  \/ SaveSteps(2)
  \/ RemoveStart(2, MENU_LAYOUT)
  \/ RemoveSteps(2)

SpecKeys == InitKeys /\ [][NextKeys]_vars

\* SpecList: a logged-in page that opens on a folder other devices have
\* filled with n versions, written at times 1..n, and reconciles the key,
\* signs a URL for it or removes it.
FolderSizes == {0, 1, 2, ListLimit - 1, ListLimit, ListLimit + 1}
FilledPaths(k) == {<<o, k, ts, inferredFilename(k)>> : o \in Owners, ts \in 1..(ListLimit + 1)}

InitList ==
  /\ inUse \in {{k} : k \in Keys}
  /\ mirror = ENABLE_LEGACY_MIRROR
  /\ ui = InitUi
  /\ \E n \in FolderSizes, b \in UNION {ForeignBytes(k) : k \in inUse} :
       remote = [p \in UNION {FilledPaths(k) : k \in inUse} |-> IF p[3] <= n THEN b ELSE None]
  /\ cache = [sk \in StoreKeys |-> None]
  /\ legacy = [p \in Owners \X AssetKeys |-> None]
  /\ session \in Owners /\ user = session
  /\ listOk \in BOOLEAN
  /\ now = 1
  /\ task = [t \in Tasks |-> IdleTask]
  /\ observed = {}
  /\ last = NoLast
  /\ excl = 0

NextList ==
  \/ \E k \in Keys : SyncStart(1, k)
  \/ SyncSteps(1)
  \/ \E k \in Keys : SignStart(1, k)
  \/ SignSteps(1)
  \/ \E k \in Keys : RemoveStart(1, k)
  \/ RemoveSteps(1)

SpecList == InitList /\ [][NextList]_vars

\* SpecMirror: a logged-in page of a build with either setting of
\* ENABLE_LEGACY_MIRROR that saves, reconciles and signs, one operation at a
\* time, while other devices upload versions.
InitMirror ==
  /\ inUse \in {{k} : k \in Keys}
  /\ mirror \in BOOLEAN
  /\ \E o \in Owners : InitState(o, None)

NextMirror ==
  \/ \E k \in Keys : SyncStart(1, k)
  \/ SyncSteps(1)
  \/ \E k \in Keys, v \in UNION {SaveValues(kk) : kk \in Keys} : SaveStart(1, k, v)
  \/ SaveSteps(1)
  \/ \E k \in Keys : SignStart(1, k)
  \/ SignSteps(1)
  \/ \E p \in Paths, b \in UNION {ForeignBytes(kk) : kk \in Keys} : OtherWrite(p, b)

SpecMirror == InitMirror /\ [][NextMirror]_vars

\* SpecFlow: a logged-in page whose load effect runs, is cleaned up and runs
\* again while the flow of an earlier run is still in flight; each folder the
\* page reads is empty or holds a version uploaded earlier, and the store
\* may hold a value that an unscoped version of the app left under the
\* global key.
FlowFolders == IF INTRO_VIDEO \in inUse THEN inUse \cup {INTRO_ASSET_KEY} ELSE inUse

InitFlow ==
  /\ inUse \in {{k} : k \in Keys}
  /\ mirror = ENABLE_LEGACY_MIRROR
  /\ ui = InitUi
  /\ \E g \in UNION {SaveValues(k) : k \in inUse} \cup {None} :
       cache = [sk \in StoreKeys |->
                 IF sk[1] = NoUser /\ sk[2] \in inUse /\ sk[3] = "" THEN g ELSE None]
  /\ \E S \in SUBSET {p \in Paths : p[2] \in FlowFolders /\ p[3] = 1},
        b \in UNION {ForeignBytes(k) : k \in inUse} :
       remote = [p \in Paths |-> IF p \in S THEN b ELSE None]
  /\ legacy = [p \in Owners \X AssetKeys |-> None]
  /\ session \in Owners /\ user = session
  /\ listOk \in BOOLEAN
  /\ now = MaxTime
  /\ task = [t \in Tasks |-> IdleTask]
  /\ observed = {}
  /\ last = NoLast
  /\ excl = 0

NextFlow ==
  \/ \E t \in Tasks, k \in Keys : FlowStart(t, k)
  \/ \E t \in Tasks : FlowSteps(t)
  \/ \E t \in Tasks : Cleanup(t)

SpecFlow == InitFlow /\ [][NextFlow]_vars

\* SpecLive: a logged-in page whose load effect runs, and runs again in the
\* second slot while the flow of the earlier run is in flight, and where
\* every call a flow awaits returns: a step of a flow that can be taken is
\* eventually taken.
InitLive ==
  /\ InitFlow
  /\ \A p \in Paths : remote[p] \in {None, <<"B", "b1">>, <<"J", "d1">>}
  /\ \A sk \in StoreKeys : cache[sk] \in {None, <<"B", "b1">>, <<"doc", "d1">>}

\* The effect runs; it runs again while the first slot is taken.
FlowFirst(k) ==
  /\ task[2].op = "idle"
  /\ FlowStart(1, k)

FlowAgain(k) ==
  /\ task[1].op # "idle"
  /\ FlowStart(2, k)

NextLive ==
  \/ \E k \in Keys : FlowFirst(k)
  \/ \E k \in Keys : FlowAgain(k)
  \/ \E t \in Tasks : FlowSteps(t)
  \/ \E t \in Tasks : Cleanup(t)

SpecLive == InitLive /\ [][NextLive]_vars /\ \A t \in Tasks : WF_vars(FlowSteps(t))

\* SpecReset: a logged-in page that saves and resets, one operation at a
\* time, in a browser whose local store holds the value and the marker an
\* earlier session of another account left for each key.
InitReset ==
  /\ inUse \in {{k} : k \in Keys}
  /\ mirror = ENABLE_LEGACY_MIRROR
  /\ ui = InitUi
  /\ cache = [sk \in StoreKeys |->
               IF sk[1] \in Accounts \ Owners
                 THEN IF sk[3] = "" THEN CHOOSE v \in SaveValues(sk[2]) : TRUE
                      ELSE <<sk[1], sk[2], 1, inferredFilename(sk[2])>>
                 ELSE None]
  /\ remote = [p \in Paths |-> None]
  /\ legacy = [p \in Owners \X AssetKeys |-> None]
  /\ session \in Owners /\ user = session
  /\ listOk \in BOOLEAN
  /\ now = 1
  /\ task = [t \in Tasks |-> IdleTask]
  /\ observed = {<<a, k, 1, inferredFilename(k)>> : a \in Accounts \ Owners, k \in Keys}
  /\ last = NoLast
  /\ excl = 0

NextReset ==
  \/ \E k \in Keys, v \in UNION {SaveValues(kk) : kk \in Keys} : SaveStart(1, k, v)
  \/ SaveSteps(1)
  \/ ResetStart(1)
  \/ ResetSteps(1)
  \/ RemoveRemote(1)
  \/ RemoveReturn(1)
  \/ Tick

SpecReset == InitReset /\ [][NextReset]_vars

\* SpecStore: a logged-in page that reconciles, one pass at a time, while
\* other devices upload versions, and whose local store may reject the write
\* of the version marker.
NextStore ==
  \/ \E k \in Keys : SyncStart(1, k)
  \/ SyncSteps(1)
  \/ SyncSetVersionFails(1)
  \/ \E p \in Paths, b \in UNION {ForeignBytes(kk) : kk \in Keys} : OtherWrite(p, b)

SpecStore == Init /\ [][NextStore]_vars

\* SpecSession: a page that reconciles and saves, one operation at a time,
\* while the user logs out (handleLogout) and a page mounts with a new
\* session, and other devices upload versions.
NextSession ==
  \/ \E k \in Keys : SyncStart(1, k)
  \/ SyncSteps(1)
  \/ \E k \in Keys, v \in UNION {SaveValues(kk) : kk \in Keys} : SaveStart(1, k, v)
  \/ SaveSteps(1)
  \/ \E o \in Owners : Login(o)
  \/ SignOut
  \/ ClearCurrentUser
  \/ \E p \in Paths, b \in UNION {ForeignBytes(kk) : kk \in Keys} : OtherWrite(p, b)

SpecSession == Init /\ [][NextSession]_vars

\* SpecSaves: a logged-in page whose editor calls saveJson / saveBlob from
\* its onChange handlers without awaiting: a second save of the key is
\* issued while the first is in flight.
SaveFirst(k, v) ==
  /\ task[2].op = "idle"
  /\ SaveStart(1, k, v)

SaveSecond(k, v) ==
  /\ task[1].op = "save" /\ task[1].key = k
  /\ SaveStart(2, k, v)

NextSaves ==
  \/ \E k \in Keys, v \in UNION {SaveValues(kk) : kk \in Keys} : SaveFirst(k, v)
  \/ SaveSteps(1)
  \/ \E k \in Keys, v \in UNION {SaveValues(kk) : kk \in Keys} : SaveSecond(k, v)
  \/ SaveSteps(2)
  \/ Tick

SpecSaves == Init /\ [][NextSaves]_vars

\* SpecRemove: a page, logged in or not, that loads, saves and removes a
\* key, one operation at a time; the store may hold a value that an unscoped
\* version of the app left under the global key.
NextRemove ==
  \/ \E k \in Keys : LoadStart(1, k)
  \/ LoadSteps(1)
  \/ \E k \in Keys, v \in UNION {SaveValues(kk) : kk \in Keys} : SaveStart(1, k, v)
  \/ SaveSteps(1)
  \/ \E k \in Keys : RemoveStart(1, k)
  \/ RemoveSteps(1)

SpecRemove == InitLocal /\ [][NextRemove]_vars

\* SpecLoads: a page, logged in or not, two of whose components load the
\* same key at once; the store may hold a value that an unscoped version of
\* the app left under the global key.
NextLoads ==
  \/ \E k \in Keys : LoadStart(1, k)
  \/ LoadSteps(1)
  \/ \E k \in Keys : LoadStart(2, k)
  \/ LoadSteps(2)

SpecLoads == InitLocal /\ [][NextLoads]_vars

\* ================================================================ claims
\* A pass of task t has returned to its `done` point having run alone.
PassDoneAlone(t) == task[t].op = "sync" /\ task[t].pc = "done" /\ excl = t

\* The cached value and the stored marker of key k for the current user.
CachedValue(k) == cache[valueKey(user, k)]
StoredVersion(k) == cache[versionKey(user, k)]

\* The newest object of the folder (the one whose name sorts last).
Newest(k) == SortDescFirst(Folder(session, k))

\* C1 (as claimed): with two or more versions in the folder, the newest one
\* V2 holding a valid value, and the marker absent or the path of an older
\* version V1, a pass whose remote calls are all answered returns
\* { updated: true, data: content of V2 } and leaves that content cached.
C1_MonotonicPickup ==
  \A t \in Tasks :
    LET k == task[t].key
    IN (/\ PassDoneAlone(t)
        /\ listOk /\ ~task[t].err
        /\ Cardinality(Folder(session, k)) >= 2
        /\ Fetched(k, remote[Newest(k)]) # None
        /\ (task[t].m0 = None \/ (task[t].m0 \in Folder(session, k) /\ task[t].m0 # Newest(k))))
       => (/\ task[t].upd
           /\ task[t].val = Fetched(k, remote[Newest(k)])
           /\ CachedValue(k) = Fetched(k, remote[Newest(k)]))

\* C2 (as claimed): of two passes of one key that run one right after the
\* other, every remote call answered, the second returns { updated: false }
\* and leaves the cached value as the first left it.
C2_IdempotentReconciliation ==
  \A t \in Tasks :
    (/\ PassDoneAlone(t)
     /\ last.op = "sync" /\ last.key = task[t].key
     /\ ~last.err /\ ~task[t].err)
    => (~task[t].upd /\ CachedValue(task[t].key) = last.cval)

\* C5 (as claimed): a pass that commits stores as marker the path of the
\* object whose bytes it fetched.
C5_CommitConsistency ==
  \A t \in Tasks :
    (task[t].op = "sync" /\ task[t].pc = "done" /\ task[t].upd /\ task[t].rp # None)
    => task[t].src = task[t].rp

\* C7 (as claimed): when the listed object P is gone at the time the pass
\* reads, the pass returns { updated: false }, and the cached value and the
\* marker are what they were when the pass started.
C7_RaceTolerance ==
  \A t \in Tasks :
    (task[t].op = "sync" /\ task[t].pc = "done" /\ task[t].gone)
    => (/\ ~task[t].upd
        /\ CachedValue(task[t].key) = task[t].v0
        /\ StoredVersion(task[t].key) = task[t].m0)

\* The markers in the local store.
Markers == {sk \in StoreKeys : sk[3] = VERSION_SUFFIX /\ cache[sk] # None}

\* C6: in every reachable state every stored marker is a versioned path of
\* the marker's own key that a successful upload or a folder listing returned.
C6_MarkerProvenance ==
  \A sk \in Markers : cache[sk] \in observed /\ cache[sk][2] = sk[2]

\* C6 witness: a pass has committed and stored the path its listing returned,
\* a path no save of this device produced.
C6_Witness ==
  \E t \in Tasks :
    /\ task[t].op = "sync" /\ task[t].pc = "done" /\ task[t].upd
    /\ task[t].rp # None /\ task[t].lv = None
    /\ StoredVersion(task[t].key) = task[t].rp

\* C8: when the bytes a pass of a JSON key fetched are not valid JSON, the
\* pass returns { updated: false }, and the cached document and the marker
\* are what they were when the pass started.
C8_JsonCorruptionSafety ==
  \A t \in Tasks :
    (task[t].op = "sync" /\ task[t].pc = "done" /\ task[t].bad)
    => (/\ ~task[t].upd
        /\ CachedValue(task[t].key) = task[t].v0
        /\ StoredVersion(task[t].key) = task[t].m0)

\* C8 witness: a pass over a cached document has fetched bytes that are not
\* JSON and has returned.
C8_Witness ==
  \E t \in Tasks :
    /\ task[t].op = "sync" /\ task[t].pc = "done" /\ task[t].bad
    /\ IsJsonKey(task[t].key)
    /\ task[t].v0 # None

\* C10 (as claimed): after a save whose upload succeeded the marker is the
\* path the upload returned; and a pass of the same key run right after it,
\* the saved object being the newest of the folder and every remote call
\* answered, returns { updated: false } and leaves the saved value cached.
C10_SaveThenReconcile ==
  \A t \in Tasks :
    /\ (task[t].op = "save" /\ task[t].pc = "done" /\ task[t].path # None /\ excl = t)
       => StoredVersion(task[t].key) = task[t].path
    /\ (/\ PassDoneAlone(t)
        /\ last.op = "save" /\ last.key = task[t].key /\ last.path # None
        /\ ~task[t].err
        /\ last.path = Newest(task[t].key))
       => (~task[t].upd /\ CachedValue(task[t].key) = last.val)

\* A load of task t has returned to its `done` point having run alone.
LoadDoneAlone(t) == task[t].op = "load" /\ task[t].pc = "done" /\ excl = t

\* C3: a save whose local write succeeded and whose remote call failed, or
\* that found no session, returns normally with its value in the local store, and a load of the same key by the same
\* owner right after it returns that value.
C3_LocalDurabilityFloor ==
  \A t \in Tasks :
    /\ (task[t].op = "save" /\ task[t].pc = "done" /\ task[t].wrote
        /\ task[t].path = None /\ excl = t)
       => (~task[t].threw /\ CachedValue(task[t].key) = task[t].val)
    /\ (LoadDoneAlone(t) /\ last.op = "save" /\ last.wrote
        /\ last.key = task[t].key /\ last.path = None)
       => task[t].val = last.val

\* C3 witness: a load has returned right after a save of a blob whose upload
\* failed under a session.
C3_Witness ==
  \E t \in Tasks :
    /\ LoadDoneAlone(t) /\ ~IsJsonKey(task[t].key)
    /\ last.op = "save" /\ last.key = task[t].key /\ last.path = None /\ last.err
    /\ task[t].val # None

\* C4 (as claimed): once a save of value X has returned with X cached, a
\* pass of the same key that was in flight before the save returned leaves X
\* in the cache.
C4_UploadVisibility ==
  \A s \in Tasks, t \in Tasks :
    (/\ task[s].op = "save" /\ task[s].pc = "done" /\ task[s].v0 = task[s].val
     /\ task[t].op = "sync" /\ task[t].key = task[s].key /\ ~task[t].late)
    => CachedValue(task[s].key) = task[s].val

\* C9: with a value v under the global key and nothing under the owner's
\* key, a load by a logged-in owner returns v, leaves v under the owner's key
\* and no global key; a load right after a load returns the same value and
\* writes nothing.
C9_LegacyMigrationIdempotence ==
  \A t \in Tasks :
    /\ (LoadDoneAlone(t) /\ task[t].usr # NoUser /\ task[t].v0 = None /\ task[t].m0 # None)
       => (/\ task[t].val = task[t].m0
           /\ cache[valueKey(task[t].usr, task[t].key)] = task[t].m0
           /\ cache[valueKey(NoUser, task[t].key)] = None)
    /\ (LoadDoneAlone(t) /\ last.op = "load" /\ last.key = task[t].key)
       => (/\ task[t].val = last.val
           /\ ~task[t].wrote
           /\ CachedValue(task[t].key) = last.cval)

\* C9 witness: the second of two loads has returned, the first having moved
\* the global value to the owner's key.
C9_Witness ==
  \E t \in Tasks :
    /\ LoadDoneAlone(t) /\ task[t].usr # NoUser
    /\ last.op = "load" /\ last.key = task[t].key /\ last.wrote
    /\ task[t].val # None
    /\ cache[valueKey(NoUser, task[t].key)] = None

\* A save of task t has returned to its `done` point having run alone.
SaveDoneAlone(t) == task[t].op = "save" /\ task[t].pc = "done" /\ excl = t

\* C11: a save whose local write succeeded and whose remote write failed (no
\* session, no answer, storage error) returns without throwing, with the new
\* value cached and the marker of the key what it was before the call.
C11_UploadRemoteFailure ==
  \A t \in Tasks :
    (SaveDoneAlone(t) /\ task[t].wrote /\ (task[t].err \/ task[t].path = None))
    => (/\ ~task[t].threw
        /\ CachedValue(task[t].key) = task[t].val
        /\ StoredVersion(task[t].key) = task[t].m0)

\* C11 witness: a save under a session has returned after its upload got no
\* answer, a marker of an earlier save being in the store.
C11_Witness ==
  \E t \in Tasks :
    /\ SaveDoneAlone(t) /\ task[t].err /\ task[t].nup = 1
    /\ task[t].m0 # None
    /\ CachedValue(task[t].key) # last.cval

\* C12: a save whose local write failed throws to its caller, has sent no
\* upload and leaves the cached value and the marker as they were; and a save
\* throws to its caller only when its local write failed.
C12_UploadLocalFailure ==
  \A t \in Tasks :
    /\ (SaveDoneAlone(t) /\ ~task[t].wrote)
       => (/\ task[t].threw
           /\ task[t].nup = 0 /\ task[t].dlp = None
           /\ CachedValue(task[t].key) = task[t].v0
           /\ StoredVersion(task[t].key) = task[t].m0)
    /\ (task[t].op = "save" /\ task[t].pc = "done" /\ task[t].threw) => ~task[t].wrote

\* C12 witness: a save has thrown on its local write while a session exists
\* and an earlier save had stored a value and a marker.
C12_Witness ==
  \E t \in Tasks :
    /\ SaveDoneAlone(t) /\ task[t].threw
    /\ session # NoUser
    /\ task[t].m0 # None /\ task[t].v0 # None /\ task[t].v0 # task[t].val

\* The remote storage calls an operation has issued.
RemoteCalls(r) == r.nlist + r.nread + r.nup + r.nrm + r.nsign

\* C13: a remote object (a version, or the legacy copy) comes into being only
\* in the upload step of a save, an operation uploads at most once, and no
\* load, pass, removeKey, resetAll or URL signing creates one.
C13_NoAutomaticPush ==
  /\ [](\A t \in Tasks : task[t].nup <= 1 /\ (task[t].nup = 1 => task[t].op = "save"))
  /\ [][/\ \A p \in DOMAIN remote :
             (remote[p] = None /\ remote'[p] # None)
             => \E t \in Tasks : /\ task[t].op = "save" /\ task[t].pc = "upload"
                                 /\ task[t].dlp = p /\ task'[t].nup = 1
        /\ \A q \in DOMAIN legacy :
             (legacy[q] = None /\ legacy'[q] # None)
             => \E t \in Tasks : task[t].op = "save" /\ task[t].pc = "uploaded"]_vars

\* C13 witness: after a save whose upload failed, a pass has listed the folder
\* and returned, the value being cached and the folder still empty.
C13_Witness ==
  \E t \in Tasks :
    /\ task[t].op = "sync" /\ task[t].pc = "done" /\ task[t].nlist >= 1
    /\ last.op = "save" /\ last.err /\ last.key = task[t].key
    /\ CachedValue(task[t].key) # None
    /\ Folder(session, task[t].key) = {}

\* C14: an operation that runs without a session issues no remote storage
\* call and does not throw; a pass returns { updated: false }, a signing
\* returns null, and a save, removeKey or resetAll has its local effect.
C14_NoSessionLocalOnly ==
  \A t \in Tasks :
    (/\ task[t].op \in {"save", "sync", "remove", "reset", "sign"}
     /\ task[t].pc = "done" /\ excl = t /\ session = NoUser)
    => (/\ RemoteCalls(task[t]) = 0
        /\ ~task[t].threw
        /\ (task[t].op = "sync" => ~task[t].upd /\ ~task[t].wrote)
        /\ (task[t].op = "sign" => task[t].val = None)
        /\ (task[t].op = "save" => CachedValue(task[t].key) = task[t].val)
        /\ (task[t].op = "remove" => /\ CachedValue(task[t].key) = None
                                     /\ StoredVersion(task[t].key) = None)
        /\ (task[t].op = "reset" => \A sk \in StoreKeys : cache[sk] = None))

\* C14 witness: a pass has returned without a session while a marker and a
\* value of an earlier session are in the store.
C14_Witness ==
  \E t \in Tasks :
    /\ task[t].op = "sync" /\ task[t].pc = "done" /\ excl = t /\ session = NoUser
    /\ task[t].m0 # None /\ task[t].v0 # None

\* C15 (as claimed): a pass whose list step yielded no latest version returns
\* { updated: false } without calling onRemoteDiff, without a content read or
\* a further listing, and without writing to the local store.
C15_AbsentRemoteTerminates ==
  \A t \in Tasks :
    (task[t].op = "sync" /\ task[t].pc = "done" /\ task[t].nlist >= 1 /\ task[t].rp = None)
    => (/\ ~task[t].upd
        /\ task[t].notif = 0
        /\ task[t].nread = 0 /\ task[t].nlist = 1
        /\ ~task[t].wrote)

\* C16: a pass whose listed latest path equals the stored marker has issued
\* one folder listing and no content read, has not called onRemoteDiff, has
\* not written to the local store, and returns { updated: false }.
C16_CheapCommonCase ==
  \A t \in Tasks :
    (/\ task[t].op = "sync" /\ task[t].pc \notin {"session", "list"}
     /\ task[t].rp # None /\ task[t].lv = task[t].rp)
    => (/\ task[t].pc = "done" /\ ~task[t].upd
        /\ task[t].nlist = 1 /\ task[t].nread = 0 /\ RemoteCalls(task[t]) = 1
        /\ task[t].notif = 0
        /\ ~task[t].wrote
        /\ CachedValue(task[t].key) = task[t].v0
        /\ StoredVersion(task[t].key) = task[t].m0)

\* C16 witness: a pass has found the listed latest path equal to its marker.
C16_Witness ==
  \E t \in Tasks :
    /\ task[t].op = "sync" /\ task[t].pc = "done"
    /\ task[t].rp # None /\ task[t].lv = task[t].rp /\ task[t].nlist = 1

\* C17: a pass calls onRemoteDiff at most once, and has called it whenever a
\* content read of the pass is under way or has been answered.
C17_ObserverOrdering ==
  \A t \in Tasks :
    task[t].op = "sync"
    => (/\ task[t].notif <= 1
        /\ (task[t].pc \in {"dlpath", "dllist", "dlget"} \/ task[t].nread > 0)
           => task[t].notif = 1)

\* C17 witness: a content read of a pass is under way.
C17_Witness ==
  \E t \in Tasks :
    /\ task[t].op = "sync" /\ task[t].pc \in {"dlpath", "dlget"}
    /\ task[t].notif = 1 /\ task[t].nread = 0

\* A content read of the pass of task t is in flight.
Fetching(t) == task[t].op = "sync" /\ task[t].pc \in {"dlpath", "dlget"}

\* C18 (as claimed): at no time are the content reads of two passes of one
\* key in flight at once.
C18_NoDoubleFetch ==
  \A s \in Tasks, t \in Tasks :
    (s # t /\ Fetching(s) /\ Fetching(t)) => task[s].key # task[t].key

\* The local entries and the remote objects of key k are the same after the
\* step as before it.
KeyUntouched(k) ==
  /\ \A sk \in StoreKeys : sk[2] = k => cache'[sk] = cache[sk]
  /\ \A p \in DOMAIN remote : p[2] = k => remote'[p] = remote[p]
  /\ \A q \in DOMAIN legacy : q[2] = k => legacy'[q] = legacy[q]

\* What an operation on key k has read belongs to k: paths of k's folder,
\* and a value of k's kind.
ReadOwnKey(r) ==
  /\ \A f \in {r.lv, r.rp, r.dlp, r.src, r.path, r.m0} : f = None \/ f[2] = r.key
  /\ \A p \in r.paths : p[2] = r.key
  /\ \A v \in {r.val, r.v0} : v = None \/ v \in SaveValues(r.key)

\* C19: a step of a pass, save or removeKey on key K leaves the cached value,
\* the marker and the remote objects of every other key as they were, and
\* what the operation has read are entries of K only.
C19_KeyIndependence ==
  /\ [](\A t \in Tasks : task[t].op \in {"sync", "save", "remove"} => ReadOwnKey(task[t]))
  /\ [][\A t \in Tasks :
          (task'[t] # task[t] /\ (task[t].op # "idle" \/ task'[t].op # "idle"))
          => LET k == IF task[t].op # "idle" THEN task[t].key ELSE task'[t].key
             IN \A kk \in Keys \ {k} : KeyUntouched(kk)]_vars

\* C19 witness: a pass on the layout has committed while a save of the video
\* is waiting for its upload, values and markers of both keys being stored.
C19_Witness ==
  \E s \in Tasks, t \in Tasks :
    /\ task[s].op = "sync" /\ task[s].pc = "done" /\ task[s].upd /\ task[s].key = MENU_LAYOUT
    /\ task[t].op = "save" /\ task[t].pc = "upload" /\ task[t].key = INTRO_VIDEO
    /\ StoredVersion(MENU_LAYOUT) # None /\ StoredVersion(INTRO_VIDEO) # None

\* What the one folder listing an operation has issued so far answered.
FirstListed(r) ==
  IF r.op = "sync" THEN r.rp
  ELSE IF r.pc = "sign" THEN r.dlp ELSE None

\* C20 (as claimed): listLatestVersionPath returns the path of the object
\* with the greatest name of the folder, whatever its size, and returns null
\* exactly when the folder is empty or the listing failed.
C20_ListLatest ==
  \A t \in Tasks :
    (/\ task[t].op \in {"sync", "sign"}
     /\ task[t].nlist = 1 /\ task[t].nread = 0 /\ task[t].nsign = 0
     /\ task[t].pc \in {"dlpath", "dllist", "sign", "done"})
    => FirstListed(task[t]) =
         IF task[t].err \/ ~listOk \/ Folder(session, task[t].key) = {}
           THEN None ELSE Newest(task[t].key)

\* C21 (as claimed): every upload of a save that the service answers creates
\* a new object, and its name is greater than the name of every object that
\* was in the folder before it, writes at the same timestamp included.
C21_VersionNaming ==
  [][\A t \in Tasks :
       (/\ task[t].op = "save" /\ task[t].pc = "upload"
        /\ task'[t].pc # "upload" /\ ~task'[t].err)
       => (/\ remote[task[t].dlp] = None
           /\ remote'[task[t].dlp] # None
           /\ \A q \in Folder(task[t].dlp[1], task[t].key) : NameLess(q, task[t].dlp))]_vars

\* C22: the bytes of a versioned object never change while it exists, and an
\* object ceases to exist only in the bucket.remove step of a removeKey or a
\* resetAll that collected its path.
C22_VersionImmutability ==
  [][\A p \in DOMAIN remote :
       remote[p] # None
       => \/ remote'[p] = remote[p]
          \/ /\ remote'[p] = None
             /\ \E t \in Tasks : /\ task[t].op \in {"remove", "reset"} /\ task[t].pc = "rm"
                                 /\ p \in task[t].paths]_vars

\* C22 witness: a save of other content has sent its upload to the path of
\* an existing object, the service has answered, and the object is as it was.
C22_Witness ==
  \E t \in Tasks :
    /\ task[t].op = "save" /\ task[t].pc = "done" /\ task[t].nup = 1 /\ ~task[t].err
    /\ task[t].path = None
    /\ remote[task[t].dlp] # None
    /\ remote[task[t].dlp] # UploadBytes(task[t].key, task[t].val)

\* C23 (as claimed): an operation one of whose remote calls failed does not
\* throw to its caller; a pass then returns { updated: false }, and a signing
\* returns null.
C23_RemoteFailuresNeverSurface ==
  \A t \in Tasks :
    (/\ task[t].op \in {"sync", "sign", "remove", "reset"}
     /\ task[t].pc = "done" /\ task[t].err)
    => (/\ ~task[t].threw
        /\ (task[t].op = "sync" => ~task[t].upd)
        /\ (task[t].op = "sign" => task[t].val = None))

\* C24 (as claimed): a signing that returns without throwing returns the URL
\* of the folder's latest object when the listing yields an object and the
\* signing of it succeeds, and null otherwise (the legacy fallback being
\* disabled); it signs at most once and never signs the legacy path.
C24_SignedUrlResolution ==
  \A t \in Tasks :
    (task[t].op = "sign" /\ task[t].pc = "done" /\ ~task[t].threw /\ session # NoUser)
    => (/\ task[t].val =
             IF ~task[t].err /\ listOk /\ Folder(session, task[t].key) # {}
               THEN <<"url", Newest(task[t].key)>> ELSE None
        /\ task[t].nsign <= 1
        /\ Len(task[t].dlp) # 2)

\* C25: a legacy upsert is sent only by a save whose upload has succeeded or
\* by a pass whose read of the listed version has succeeded, the legacy
\* object changes in no other step, and what the save or the pass returns
\* does not depend on the upsert: the save returns the uploaded path and the
\* pass the value of the version it read, whether the upsert was carried out,
\* failed or was not sent.
C25_LegacyMirrorOffCriticalPath ==
  /\ [](\A t \in Tasks :
          /\ task[t].mirr # "off"
             => \/ /\ task[t].op = "save" /\ task[t].pc = "done"
                   /\ task[t].nup = 1 /\ remote[task[t].dlp] # None
                \/ /\ task[t].op = "sync" /\ task[t].pc \in {"setver", "done"}
                   /\ task[t].nread = 1 /\ remote[task[t].dlp] # None
          /\ (task[t].op = "sync" /\ task[t].mirr # "off")
             => /\ task[t].val = Fetched(task[t].key, remote[task[t].dlp])
                /\ task[t].val # None => (task[t].pc = "setver" \/ task[t].upd))
  /\ [][/\ legacy' # legacy
           => \E t \in Tasks : /\ task[t].pc \in {"uploaded", "dlget"}
                               /\ task[t].mirr = "off" /\ task'[t].mirr = "done"
        /\ \A t \in Tasks :
             (task[t].op = "save" /\ task[t].pc = "uploaded" /\ task'[t].pc # "uploaded")
             => (/\ task'[t].path = task[t].dlp
                 /\ ~task'[t].threw
                 /\ cache'[versionKey(user, task[t].key)] = task[t].dlp)]_vars

\* C25 witness: a save has returned the uploaded path although its legacy
\* upsert failed.
C25_Witness ==
  \E t \in Tasks :
    /\ task[t].op = "save" /\ task[t].pc = "done"
    /\ task[t].mirr = "failed"
    /\ task[t].path = task[t].dlp /\ task[t].path # None
    /\ legacy[LegacyPath(task[t].dlp[1], task[t].key)] # UploadBytes(task[t].key, task[t].val)

\* C26: in a build with the legacy mirror disabled no step changes a legacy
\* object, and no pass or signing sends a legacy upsert, takes the legacy
\* path as the remote version, reads its value from the legacy path or signs
\* the legacy path.
C26_LegacySwitch ==
  /\ [](~mirror =>
          \A t \in Tasks :
            /\ task[t].mirr = "off"
            /\ task[t].op \in {"sync", "sign"}
               => (Len(task[t].rp) # 2 /\ Len(task[t].src) # 2 /\ Len(task[t].dlp) # 2))
  /\ [][~mirror => legacy' = legacy]_vars

\* C26 witness: in a build with the mirror disabled a pass has read the
\* listed version through downloadAssetBlob and committed it, and a legacy
\* object does not exist.
C26_Witness ==
  \E t \in Tasks :
    /\ ~mirror
    /\ task[t].op = "sync" /\ task[t].pc = "done" /\ task[t].upd
    /\ task[t].src = task[t].dlp /\ Len(task[t].dlp) = 4
    /\ legacy[LegacyPath(session, task[t].key)] = None

\* A call the flow of task t awaits returns to the flow in this step.
Resumes(t) ==
  /\ task[t].flow # "none"
  /\ task[t].pc \in {"done", "fetch"}
  /\ task'[t] # task[t]

\* C27 (as claimed): once the cancellation flag of a flow is set, what its
\* calls return is discarded: the step in which a call returns to the flow
\* changes neither the component's state (what it shows, the stream URL, the
\* loading flag) nor the local store.
C27_Cancellation ==
  [][\A t \in Tasks :
       (task[t].cancelled /\ Resumes(t)) => (ui' = ui /\ cache' = cache)]_vars

\* C28 (as claimed): a step of a resetAll leaves the cached values and the
\* markers stored under every account other than the current owner as they
\* were.
C28_ResetOwnerScoping ==
  [][\A t \in Tasks :
       (task'[t] # task[t] /\ (task[t].op = "reset" \/ task'[t].op = "reset"))
       => \A sk \in StoreKeys :
            (sk[1] \in Accounts \ {user}) => cache'[sk] = cache[sk]]_vars

\* C29: a removeKey that no login or logout interleaves with has deleted the
\* cached value and the version marker of its key for the current owner
\* before it issues a remote call, and never throws: it reaches its return
\* with both deleted also without a session, without a user id, and when the
\* remote list or remove failed.
C29_RemoveKeyLocalEffect ==
  \A t \in Tasks :
    (task[t].op = "remove" /\ excl = t)
    => (/\ ~task[t].threw
        /\ (task[t].pc # "delver" \/ RemoteCalls(task[t]) > 0)
           => (/\ CachedValue(task[t].key) = None
               /\ StoredVersion(task[t].key) = None)
        /\ task[t].pc \in {"delver", "session"} => RemoteCalls(task[t]) = 0)

\* C29 witness: a removeKey of a key with a cached value and a marker has
\* returned after its remote remove failed.
C29_Witness ==
  \E t \in Tasks :
    /\ task[t].op = "remove" /\ task[t].pc = "done" /\ excl = t
    /\ task[t].err /\ task[t].nrm = 1
    /\ task[t].v0 # None /\ task[t].m0 # None

\* C30 (as claimed): a removeKey under a session whose remote calls were all
\* answered, listing allowed, leaves no versioned object in the folder of its
\* key, whatever the folder's size; and a pass of the key right after it,
\* every call answered, returns { updated: false } and caches nothing.
C30_RemoveKeyAllVersions ==
  \A t \in Tasks :
    /\ (/\ task[t].op = "remove" /\ task[t].pc = "done" /\ excl = t
        /\ task[t].nrm = 1 /\ ~task[t].err /\ listOk)
       => Folder(session, task[t].key) = {}
    /\ (/\ PassDoneAlone(t) /\ ~task[t].err /\ listOk
        /\ last.op = "remove" /\ last.key = task[t].key /\ ~last.err)
       => (~task[t].upd /\ CachedValue(task[t].key) = None)

\* C31 (as claimed): a load of a key that runs right after a removeKey of the
\* key by the same owner returns absent, whatever the store held before, a
\* value under the global unscoped key included.
C31_RemovedMeansAbsent ==
  \A t \in Tasks :
    (LoadDoneAlone(t) /\ last.op = "remove" /\ last.key = task[t].key)
    => task[t].val = None

\* C32 (as claimed): when a pass returns { updated: false }, the cached value
\* and the version marker of its key are what they were when the pass
\* started, also when the local store rejected the write of the marker.
C32_NotUpdatedMeansUntouched ==
  \A t \in Tasks :
    (task[t].op = "sync" /\ task[t].pc = "done" /\ ~task[t].upd)
    => (/\ CachedValue(task[t].key) = task[t].v0
        /\ StoredVersion(task[t].key) = task[t].m0)

\* The owner of the remote folder the write of this segment of a pass or a
\* save belongs to: the owner in the path it read, listed or uploaded to.
FolderOwner(r) ==
  CASE r.pc = "dlpath" -> r.lv[1]
    [] r.pc = "dlget" -> r.dlp[1]
    [] r.pc = "setver" -> r.rp[1]
    [] r.pc = "uploaded" -> r.dlp[1]
    [] OTHER -> session

\* C33 (as claimed): while sessions end and begin, every entry of the local
\* store that a step of a pass or of a save writes is an entry of the owner
\* of the remote folder the content or the path came from, never an entry of
\* another owner or the global unscoped one; and every stored marker lies
\* under the scope of the owner named in its path.
C33_OwnerIsolation ==
  /\ [](\A sk \in Markers : cache[sk][1] = sk[1])
  /\ [][\A t \in Tasks, sk \in StoreKeys :
          (/\ task[t].op \in {"sync", "save"} /\ task'[t] # task[t]
           /\ cache'[sk] # cache[sk])
          => sk[1] = FolderOwner(task[t])]_vars

\* C34 (as claimed): while saves and passes of a key interleave and no
\* removeKey or resetAll runs, no step replaces the stored version marker of
\* the key by a path whose name sorts before the name of the path it replaces.
C34_MarkerMonotonicity ==
  [][\A sk \in StoreKeys :
       (sk[3] = VERSION_SUFFIX /\ cache[sk] # None /\ cache'[sk] # None)
       => ~NameLess(cache'[sk], cache[sk])]_vars

\* C35 (as claimed): when saveJson(key, X) and then saveJson(key, Y) are
\* issued without awaiting and the service answers both uploads, then once
\* both calls have finished the cached value is Y, the latest version of the
\* folder has the content of Y, and the stored marker is its path.
C35_OrderedSavesConverge ==
  LET k == task[1].key
  IN (/\ task[1].op = "save" /\ task[1].pc = "done"
      /\ task[2].op = "save" /\ task[2].pc = "done" /\ task[2].key = k
      /\ task[1].nup = 1 /\ task[2].nup = 1
      /\ ~task[1].err /\ ~task[2].err)
     => (/\ CachedValue(k) = task[2].val
         /\ remote[Newest(k)] = UploadBytes(k, task[2].val)
         /\ StoredVersion(k) = Newest(k))

C37_LoadingReadOnly ==
  [][inUse = {INTRO_VIDEO}
     => /\ \A p \in DOMAIN remote : remote[p] = None => remote'[p] = None
        /\ Folder(session, INTRO_VIDEO)' = Folder(session, INTRO_VIDEO)]_vars

\* C38: whenever the loading flag is up while a load flow is running that is
\* not cancelled, the flag is eventually lowered (or the flow is cancelled),
\* whatever the flow's calls return.
C38_LoadingIndicatorLiveness ==
  \A t \in Tasks :
    (task[t].flow # "none" /\ ~task[t].cancelled /\ ui.loading)
    ~> (~ui.loading \/ task[t].cancelled)

\* C38 witness: the pass of a running flow has called onRemoteDiff, which
\* raised the flag the local load had lowered, and its download failed.
C38_Witness ==
  \E t \in Tasks :
    /\ task[t].flow # "none" /\ ~task[t].cancelled
    /\ task[t].op = "sync" /\ task[t].pc = "done" /\ task[t].notif = 1
    /\ ~task[t].upd /\ task[t].err
    /\ ui.loading

====
